---- MODULE Spec2Model ----
(***************************************************************************)
(* The backtracking Sudoku solver of src/solver.py (SudokuSolver and the   *)
(* module-level solve / _is_valid), as a state machine.  The recursive     *)
(* generator SudokuSolver.solve is unfolded into an explicit stack of      *)
(* frames; every yield is a suspension point of the step stream.           *)
(*                                                                         *)
(* The board is scaled: a box is BoxSize x BoxSize and the board is        *)
(* N x N with N = BoxSize * BoxSize (the source fixes BoxSize = 3, N = 9). *)
(*                                                                         *)
(* The Board of src/game.py drives the solver: its boxes, the operations   *)
(* of the user (select, sketch, place, clear, reset) and Board.solve with  *)
(* the animation of the collected steps form the specification GameSpec.   *)
(***************************************************************************)
EXTENDS Integers, Sequences, FiniteSets, TLC

\* ------------------------------------------------------------------ bounds
BoxSize == 2
WindowSize == 6
MaxPrefix == 11
ChangeSpan == 9
MaxChanged == 1
MaxSeed == 2

\* Board games: the puzzle empties the first GameEmptied cells except the
\* GameKept-th, the user's clicks land on ClickSpan cells from that one on,
\* and the user makes at most MaxOps operations.
GameEmptied == 12
GameKept == 4
ClickSpan == 3
MaxOps == 4

N == BoxSize * BoxSize
Rows == 0 .. (N - 1)
Digits == 1 .. N
Cells == Rows \X Rows

\* Python's None, for last_backtrack and for a frame that holds no cell yet.
None == <<-2, -2>>

\* ------------------------------------------------------------------ state
VARIABLES
    board,            \* self.board: the grid, mutated in place
    options,          \* self.options: the CellState table
    last_backtrack,   \* self.last_backtrack
    stack,            \* the active frames of SudokuSolver.solve, root first
    step,             \* the step the stream is suspended at (NoStep: none)
    done,             \* the root generator is exhausted
    grid0,            \* the grid as it was passed to solve
    terminal_count,   \* how many terminal success steps were emitted
    placed,           \* the (cell, digit) of each frame when the terminal step was emitted
    after_terminal,   \* the steps emitted after the terminal success step
    rng,              \* the random source: <<>> unseeded, <<x>> seeded in state x
    tried,            \* per frame, the candidate set of its cell on entry and the digits it has tried
    trial,            \* per frame, the grid and the table as they were when its current trial began
    harness,          \* the caller that solves a grid twice from one seed
    game              \* the Board of game.py: boxes, selection, game state, animation queue

vars == <<board, options, last_backtrack, stack, step, done, grid0,
          terminal_count, placed, after_terminal, rng, tried, trial, harness, game>>

\* ------------------------------------------------------- peers and boxes
\* (a variant that forgets to scale the box index back to a cell index)
box_start_unscaled(k) == k \div BoxSize

\* row // 3 * 3: the first row (column) of the box that holds row (column) k.
box_start(k) == (k \div BoxSize) * BoxSize

BoxCells(row, col) ==
    { <<i, j>> : i \in box_start(row) .. (box_start(row) + BoxSize - 1),
                 j \in box_start(col) .. (box_start(col) + BoxSize - 1) }

RowCells(row) == { <<row, j>> : j \in Rows }

ColCells(col) == { <<i, col>> : i \in Rows }

\* The order in which the three loops of the update functions visit cells:
\* the row left to right, the column top to bottom, the box row by row.
VisitOrder(row, col) ==
    [k \in 1 .. (3 * N) |->
        IF k <= N THEN <<row, k - 1>>
        ELSE IF k <= 2 * N THEN <<k - N - 1, col>>
        ELSE <<box_start(row) + ((k - 2 * N - 1) \div BoxSize),
               box_start(col) + ((k - 2 * N - 1) % BoxSize)>>]

\* ------------------------------------------------------------ CellState
CellState(opts, deg) == [options |-> opts, degree |-> deg]

\* ------------------------------------------------------------ SolveStep
SolveStep(row, col, value, step_type) ==
    [row |-> row, col |-> col, value |-> value, step_type |-> step_type]

NoStep == SolveStep(-2, -2, 0, "none")

\* --------------------------------------------------- SudokuSolver helpers
\* (a variant that leaves out the box loop)
get_valid_options_without_box(b, row, col) ==
    (Digits \ { b[c] : c \in RowCells(row) }) \ { b[c] : c \in ColCells(col) }

get_valid_options(b, row, col) ==
    LET after_row == Digits \ { b[c] : c \in RowCells(row) }
        after_col == after_row \ { b[c] : c \in ColCells(col) }
    IN  after_col \ { b[c] : c \in BoxCells(row, col) }

calculate_degree(b, row, col) ==
    Cardinality({ c \in RowCells(row) : b[c] = 0 /\ c[2] # col })
  + Cardinality({ c \in ColCells(col) : b[c] = 0 /\ c[1] # row })
  + Cardinality({ c \in BoxCells(row, col) : b[c] = 0 /\ (c[1] # row \/ c[2] # col) })

\* (a variant without the test for an empty cell)
initialize_state_every_cell(b) ==
    [c \in Cells |->
        CellState(get_valid_options(b, c[1], c[2]), calculate_degree(b, c[1], c[2]))]

initialize_state(b) ==
    [c \in Cells |->
        IF b[c] = 0
        THEN CellState(get_valid_options(b, c[1], c[2]), calculate_degree(b, c[1], c[2]))
        ELSE CellState({}, -1)]

is_valid(b, row, col, num) ==
    /\ \A j \in Rows : b[<<row, j>>] # num
    /\ \A i \in Rows : b[<<i, col>>] # num
    /\ \A c \in BoxCells(row, col) : b[c] # num

\* (a variant of the module-level predicate that skips the cell itself)
module_is_valid_skipping_cell(b, row, col, num) ==
    \A c \in (RowCells(row) \cup ColCells(col) \cup BoxCells(row, col)) \ {<<row, col>>} :
        b[c] # num

\* The module-level _is_valid(board, row, col, num) of solver.py 326-346: the
\* row over range(len(board[0])), the column over range(len(board)), the
\* box by offsets from its first row and column.  It assigns nothing.
module_is_valid(b, row, col, num) ==
    LET box_x == box_start(row)
        box_y == box_start(col)
    IN  /\ \A x \in 0 .. (N - 1) : b[<<row, x>>] # num
        /\ \A x \in 0 .. (N - 1) : b[<<x, col>>] # num
        /\ \A i \in 0 .. (BoxSize - 1) : \A j \in 0 .. (BoxSize - 1) :
              b[<<box_x + i, box_y + j>>] # num

\* Row-major scan order of the double loop of _get_next_cell.
CellAt(k) == <<(k - 1) \div N, (k - 1) % N>>

\* The scan of _get_next_cell from the k-th cell on; candidates is the list
\* of cells tied on (fewest options, highest degree) so far.
RECURSIVE scan_cells(_, _, _, _, _, _)
scan_cells(b, opts, k, min_options, max_degree, candidates) ==
    IF k > N * N THEN candidates
    ELSE LET cell == CellAt(k)
             num_options == Cardinality(opts[cell].options)
             degree == opts[cell].degree
         IN  IF b[cell] # 0
             THEN scan_cells(b, opts, k + 1, min_options, max_degree, candidates)
             ELSE IF num_options < min_options
                     \/ (num_options = min_options /\ degree > max_degree)
             THEN scan_cells(b, opts, k + 1, num_options, degree, <<cell>>)
             ELSE IF num_options = min_options /\ degree = max_degree
             THEN scan_cells(b, opts, k + 1, min_options, max_degree,
                             Append(candidates, cell))
             ELSE scan_cells(b, opts, k + 1, min_options, max_degree, candidates)

\* (a variant that takes the first empty cell in row-major order)
get_next_cell_first_empty(b, opts) ==
    LET ks == { k \in 1 .. (N * N) : b[CellAt(k)] = 0 }
    IN  IF ks = {} THEN <<>>
        ELSE << CellAt(CHOOSE k \in ks : \A j \in ks : k <= j) >>

\* (a variant that returns the first cell of the grid, empty or not)
get_next_cell_first_cell(b, opts) == << CellAt(1) >>

\* (a variant that never finds a cell)
get_next_cell_none(b, opts) == <<>>

\* The candidates list _get_next_cell draws from (empty: the method returns None).
get_next_cell(b, opts) == scan_cells(b, opts, 1, N + 1, -1, <<>>)

\* constraining_counts[num] of _get_next_value: the empty peers listing num,
\* summed over the row, the column and the box.
constraining_count(b, opts, row, col, num) ==
    Cardinality({ c \in RowCells(row) : c[2] # col /\ b[c] = 0 /\ num \in opts[c].options })
  + Cardinality({ c \in ColCells(col) : c[1] # row /\ b[c] = 0 /\ num \in opts[c].options })
  + Cardinality({ c \in BoxCells(row, col) :
                    (c[1] # row \/ c[2] # col) /\ b[c] = 0 /\ num \in opts[c].options })

\* A set of small integers as the list Python iterates it in: ascending.
RECURSIVE SetToList(_)
SetToList(S) ==
    IF S = {} THEN <<>>
    ELSE LET m == CHOOSE x \in S : \A y \in S : x <= y
         IN  <<m>> \o SetToList(S \ {m})

\* (a variant with the emptiness test of line 120 inverted: a cell that has
\* options is reported to have none)
get_next_value_inverted(b, opts, row, col) == <<>>

\* The list _get_next_value draws from (empty: the method returns None).
\* constraining_counts is a defaultdict: a digit gets a key only when its
\* count is incremented, so digits no peer lists are absent from the minimum.
get_next_value(b, opts, row, col) ==
    LET own == opts[<<row, col>>].options
        keys == { num \in own : constraining_count(b, opts, row, col, num) > 0 }
        min_constraints ==
            CHOOSE m \in { constraining_count(b, opts, row, col, num) : num \in keys } :
                \A num \in keys : m <= constraining_count(b, opts, row, col, num)
    IN  IF own = {} THEN <<>>
        ELSE IF keys = {} THEN SetToList(own)
        ELSE SetToList({ num \in keys :
                           constraining_count(b, opts, row, col, num) = min_constraints })

\* (a variant without the early return: every visited cell loses the digit
\* and the method reports success)
discard_from_without_return(b, opts, visit, k, num) ==
    [ok |-> TRUE,
     options |-> [c \in Cells |->
                    IF b[c] = 0 /\ (\E i \in k .. Len(visit) : visit[i] = c)
                    THEN CellState(opts[c].options \ {num}, opts[c].degree)
                    ELSE opts[c]]]

\* _update_cell_options: the three loops from the k-th visited cell on, with
\* their early return.  ok is the returned boolean, options the table as the
\* method leaves it.
RECURSIVE discard_from(_, _, _, _, _)
discard_from(b, opts, visit, k, num) ==
    IF k > Len(visit) THEN [ok |-> TRUE, options |-> opts]
    ELSE LET c == visit[k]
             removed == [opts EXCEPT ![c].options = @ \ {num}]
         IN  IF b[c] # 0 THEN discard_from(b, opts, visit, k + 1, num)
             ELSE IF removed[c].options = {} THEN [ok |-> FALSE, options |-> removed]
             ELSE discard_from(b, removed, visit, k + 1, num)

\* (a variant that runs the row loop only)
update_cell_options_row_only(b, opts, row, col, num) ==
    discard_from(b, [opts EXCEPT ![<<row, col>>].options = {}],
                 SubSeq(VisitOrder(row, col), 1, N), 1, num)

\* (a variant that empties the cell's own options and leaves its peers alone)
update_cell_options_without_discard(b, opts, row, col, num) ==
    [ok |-> TRUE, options |-> [opts EXCEPT ![<<row, col>>].options = {}]]

\* (a variant that reports a dead peer whatever the table holds)
update_cell_options_failing(b, opts, row, col, num) ==
    [ok |-> FALSE, options |-> opts]

update_cell_options(b, opts, row, col, num) ==
    discard_from(b, [opts EXCEPT ![<<row, col>>].options = {}],
                 VisitOrder(row, col), 1, num)

\* _update_cell_degrees: the three loops from the k-th visited cell on.
RECURSIVE decrement_from(_, _, _, _)
decrement_from(b, opts, visit, k) ==
    IF k > Len(visit) THEN opts
    ELSE LET c == visit[k]
         IN  IF b[c] = 0 /\ opts[c].degree >= 0
             THEN decrement_from(b, [opts EXCEPT ![c].degree = @ - 1], visit, k + 1)
             ELSE decrement_from(b, opts, visit, k + 1)

\* (a variant that decrements each empty peer once, however many of the
\* three loops visit it)
update_cell_degrees_once(b, opts, row, col) ==
    [c \in Cells |->
        IF c = <<row, col>> THEN CellState(opts[c].options, -1)
        ELSE IF b[c] = 0 /\ opts[c].degree >= 0
                /\ (\E k \in 1 .. (3 * N) : VisitOrder(row, col)[k] = c)
        THEN CellState(opts[c].options, opts[c].degree - 1)
        ELSE opts[c]]

\* (a variant that leaves the degree of the filled cell as it was)
update_cell_degrees_without_marker(b, opts, row, col) ==
    decrement_from(b, opts, VisitOrder(row, col), 1)

update_cell_degrees(b, opts, row, col) ==
    decrement_from(b, [opts EXCEPT ![<<row, col>>].degree = -1], VisitOrder(row, col), 1)

\* (a variant that swaps the two indices of the write)
place_digit_transposed(b, row, col, num) == [b EXCEPT ![<<col, row>>] = num]

\* solver.py 269: self.board[row][col] = num.
place_digit(b, row, col, num) == [b EXCEPT ![<<row, col>>] = num]

\* (a variant that leaves the digit on the board)
clear_digit_skipped(b, row, col) == b

\* solver.py 288: self.board[row][col] = 0.
clear_digit(b, row, col) == [b EXCEPT ![<<row, col>>] = 0]

\* (a variant that puts back the cell's own state but not the table)
restore_cell_only(global_cell_options, curr_cell_options, curr_cell_degree, row, col) ==
    [options EXCEPT ![<<row, col>>] = CellState(curr_cell_options, curr_cell_degree)]

\* (a variant that puts back the candidate sets and keeps the live degrees)
restore_options_only(global_cell_options, curr_cell_options, curr_cell_degree, row, col) ==
    [c \in Cells |-> CellState(global_cell_options[c].options, options[c].degree)]

\* The restore of a trial that did not work (solver.py 290-292): the table
\* is replaced by the backup and the cell gets its saved options and degree.
restore_state(global_cell_options, curr_cell_options, curr_cell_degree, row, col) ==
    [global_cell_options EXCEPT
        ![<<row, col>>] = CellState(curr_cell_options, curr_cell_degree)]

\* (a variant that drops every digit of the cell once one has failed)
remove_all_options(opts, row, col, num) ==
    [opts EXCEPT ![<<row, col>>].options = {}]

\* (a variant that leaves the digit among the cell's options)
keep_option(opts, row, col, num) == opts

\* solver.py 295: the digit that did not lead to a solution leaves the
\* cell's options.
remove_option(opts, row, col, num) ==
    [opts EXCEPT ![<<row, col>>].options = @ \ {num}]

\* ------------------------------------------------------------ input grids
\* A solved board of any box size, used to build the input grids.
Solution ==
    [c \in Cells |->
        ((BoxSize * (c[1] % BoxSize) + (c[1] \div BoxSize) + c[2]) % N) + 1]

\* The first n cells in row-major order.
Prefix(n) == { CellAt(k) : k \in 1 .. n }

\* The grids handed to solve: the solved board in which the cells of E are
\* emptied and at most MaxChanged of the first ChangeSpan cells hold any
\* digit at all (the digit may or may not conflict with a peer).  E is any
\* set of cells among the first WindowSize, or all of the first n cells for
\* n up to MaxPrefix.  The grids include full boards, boards with several
\* completions whose search has to give up digits, boards without a
\* completion and boards whose given cells conflict.
InputGrids ==
    { [c \in Cells |-> IF c \in E THEN 0
                       ELSE IF c \in DOMAIN ch THEN ch[c] ELSE Solution[c]] :
        E \in (SUBSET Prefix(WindowSize)) \cup { Prefix(n) : n \in 0 .. MaxPrefix },
        ch \in UNION { [X -> Digits] :
                         X \in { S \in SUBSET Prefix(ChangeSpan) :
                                   Cardinality(S) <= MaxChanged } } }

\* ----------------------------------------------------------------- frames
\* A frame of SudokuSolver.solve: its locals and where it stands.
\*   "start"     entered, before _get_next_cell
\*   "loop"      at the top of the while loop
\*   "clear"     suspended at the yield of a clear step
\*   "value"     after the clear, before _get_next_value
\*   "backtrack" suspended at the yield of a backtrack step
\*   "attempt"   suspended at the yield of an attempt step
\*   "recurse"   inside the for loop over the recursive solve()
\*   "returned"  the recursive solve() is exhausted
\*   "success"   suspended at the yield of this frame's success step
\*   "terminal"  suspended at the yield of the terminal success step
Frame(cell, num, pc, curr_cell_options, curr_cell_degree, global_cell_options, solution_found) ==
    [cell |-> cell, num |-> num, pc |-> pc,
     curr_cell_options |-> curr_cell_options,
     curr_cell_degree |-> curr_cell_degree,
     global_cell_options |-> global_cell_options,
     solution_found |-> solution_found]

NewFrame == Frame(None, 0, "start", {}, -1, <<>>, FALSE)

Top == stack[Len(stack)]

SetTop(f) == [stack EXCEPT ![Len(stack)] = f]

\* The step is passed up through every enclosing for loop (solver.py 276-279).
\* A caller that compares two solves keeps the steps it is handed.
Emit(s) ==
    /\ step' = s
    /\ after_terminal' = IF terminal_count > 0 THEN Append(after_terminal, s)
                         ELSE after_terminal
    /\ harness' = IF harness.run = 0 THEN harness
                  ELSE [harness EXCEPT !.stream = Append(@, s)]

\* (a variant that draws from a source the seed does not reach)
unseeded_choice(n) == 1 .. n

\* random.choice on a list of n elements: the positions it can return.  An
\* unseeded source can return any of them; a seeded source returns the one
\* its state determines.
random_choice(n) == IF rng = <<>> THEN 1 .. n ELSE { (rng[1] % n) + 1 }

\* The state of the random source after one draw.
after_draw(r) == IF r = <<>> THEN r ELSE << (5 * r[1] + 3) % 16 >>

\* A frame that has no cell yet.
NoTried == [on_entry |-> {}, digits |-> {}]

\* A frame that has not tried a digit yet.
NoTrial == [board |-> <<>>, options |-> <<>>]

\* No Board: the solver is used on its own.
NoGame == [state |-> "none"]

NoHarness == [run |-> 0, seed |-> <<>>, stream |-> <<>>, first_stream |-> <<>>]

\* SudokuSolver(board) and solver.solve(): the state of a new solver and its
\* generator, not yet started.
NewSolver(b) ==
    /\ board' = b
    /\ options' = initialize_state(b)
    /\ last_backtrack' = None
    /\ stack' = <<NewFrame>>
    /\ trial' = <<NoTrial>>
    /\ tried' = <<NoTried>>

\* solve(board): SudokuSolver(board) and its generator, not yet started.
Init ==
    /\ grid0 \in InputGrids
    /\ board = grid0
    /\ options = initialize_state(grid0)
    /\ last_backtrack = None
    /\ stack = <<NewFrame>>
    /\ trial = <<NoTrial>>
    /\ tried = <<NoTried>>
    /\ step = NoStep
    /\ done = FALSE
    /\ terminal_count = 0
    /\ placed = <<>>
    /\ after_terminal = <<>>
    /\ rng = <<>>
    /\ harness = NoHarness
    /\ game = NoGame

\* ---------------------------------------------------------------- actions
\* A frame returns: it leaves the stack and the for loop of its caller ends;
\* when it was the root frame the stream is exhausted.
Return(frames) ==
    IF Len(frames) = 1
    THEN /\ stack' = <<>>
         /\ trial' = <<>>
         /\ tried' = <<>>
         /\ done' = TRUE
    ELSE /\ stack' = [k \in 1 .. (Len(frames) - 1) |->
                        IF k = Len(frames) - 1
                        THEN [frames[k] EXCEPT !.pc = "returned"]
                        ELSE frames[k]]
         /\ trial' = SubSeq(trial, 1, Len(frames) - 1)
         /\ tried' = SubSeq(tried, 1, Len(frames) - 1)
         /\ done' = FALSE

\* solver.py 234-240, no cell left: the terminal success step is yielded.
FoundSolution ==
    /\ ~done /\ Top.pc = "start"
    /\ get_next_cell(board, options) = <<>>
    /\ Emit(SolveStep(-1, -1, 0, "success"))
    /\ stack' = SetTop([Top EXCEPT !.pc = "terminal"])
    /\ terminal_count' = terminal_count + 1
    /\ placed' = [k \in 1 .. (Len(stack) - 1) |-> <<stack[k].cell, stack[k].num>>]
    /\ UNCHANGED <<game, tried, trial, rng, board, options, last_backtrack, done, grid0>>

\* solver.py 234-242: random.choice among the cells _get_next_cell ties.
SelectCell ==
    /\ ~done /\ Top.pc = "start"
    /\ LET candidates == get_next_cell(board, options)
       IN  /\ candidates # <<>>
           /\ \E i \in random_choice(Len(candidates)) :
                 /\ stack' = SetTop([Top EXCEPT !.cell = candidates[i], !.pc = "loop"])
                 /\ tried' = [tried EXCEPT ![Len(stack)] =
                                 [on_entry |-> options[candidates[i]].options,
                                  digits |-> {}]]
    /\ rng' = after_draw(rng)
    /\ UNCHANGED <<game, trial, harness, board, options, last_backtrack, step, done, grid0,
                   terminal_count, placed, after_terminal>>

\* (a variant that swaps the row and the column of the cell)
clear_step_transposed(cell) == SolveStep(cell[2], cell[1], 0, "clear")

\* solver.py 246: the clear step of a backtracked cell.
clear_step(cell) == SolveStep(cell[1], cell[2], 0, "clear")

\* solver.py 245-246: the clear step for the last backtracked cell.
YieldClear ==
    /\ ~done /\ Top.pc = "loop"
    /\ last_backtrack # None
    /\ Emit(clear_step(last_backtrack))
    /\ stack' = SetTop([Top EXCEPT !.pc = "clear"])
    /\ UNCHANGED <<game, tried, trial, rng, board, options, last_backtrack, done, grid0, terminal_count, placed>>

\* solver.py 247, on resumption after the clear step.
ResumeClear ==
    /\ ~done /\ Top.pc = "clear"
    /\ last_backtrack' = None
    /\ step' = NoStep
    /\ stack' = SetTop([Top EXCEPT !.pc = "value"])
    /\ UNCHANGED <<game, tried, trial, rng, harness, board, options, done, grid0, terminal_count, placed, after_terminal>>

AtValue ==
    /\ ~done
    /\ \/ Top.pc = "value"
       \/ Top.pc = "loop" /\ last_backtrack = None

\* solver.py 249-254: _get_next_value returns None, the backtrack step is yielded.
NoValue ==
    /\ AtValue
    /\ get_next_value(board, options, Top.cell[1], Top.cell[2]) = <<>>
    /\ Emit(SolveStep(Top.cell[1], Top.cell[2], 0, "backtrack"))
    /\ stack' = SetTop([Top EXCEPT !.pc = "backtrack"])
    /\ UNCHANGED <<game, tried, trial, rng, board, options, last_backtrack, done, grid0, terminal_count, placed>>

\* solver.py 249-260 and 295: random.choice among the least constraining
\* digits; a legal digit is yielded as an attempt step, an illegal one is
\* removed from the cell's options.
SelectValue ==
    /\ AtValue
    /\ LET row == Top.cell[1]
           col == Top.cell[2]
           candidates == get_next_value(board, options, row, col)
       IN  /\ candidates # <<>>
           /\ \E i \in random_choice(Len(candidates)) :
                LET num == candidates[i]
                IN  IF is_valid(board, row, col, num)
                    THEN /\ Emit(SolveStep(row, col, num, "attempt"))
                         /\ stack' = SetTop([Top EXCEPT !.num = num, !.pc = "attempt"])
                         /\ options' = options
                    ELSE /\ options' = remove_option(options, row, col, num)
                         /\ stack' = SetTop([Top EXCEPT !.pc = "loop"])
                         /\ UNCHANGED <<step, after_terminal, harness>>
    /\ rng' = after_draw(rng)
    /\ UNCHANGED <<game, tried, trial, board, last_backtrack, done, grid0, terminal_count, placed>>

\* solver.py 255-256 and 297-298, on resumption after the backtrack step:
\* the cell is remembered, the loop is left and the frame returns.
ResumeBacktrack ==
    /\ ~done /\ Top.pc = "backtrack"
    /\ last_backtrack' = Top.cell
    /\ step' = NoStep
    /\ Return(stack)
    /\ UNCHANGED <<game, rng, harness, board, options, grid0, terminal_count, placed, after_terminal>>

\* solver.py 262-276, on resumption after the attempt step: backup, the
\* digit is written, the elimination succeeds and solve() is entered again.
Place ==
    /\ ~done /\ Top.pc = "attempt"
    /\ LET row == Top.cell[1]
           col == Top.cell[2]
           num == Top.num
           placed_board == place_digit(board, row, col, num)
           updated == update_cell_options(placed_board, options, row, col, num)
       IN  /\ updated.ok
           /\ board' = placed_board
           /\ options' = update_cell_degrees(placed_board, updated.options, row, col)
           /\ stack' = Append(SetTop([Top EXCEPT
                                 !.curr_cell_options = options[Top.cell].options,
                                 !.curr_cell_degree = options[Top.cell].degree,
                                 !.global_cell_options = options,
                                 !.solution_found = FALSE,
                                 !.pc = "recurse"]),
                              NewFrame)
           /\ trial' = Append([trial EXCEPT ![Len(stack)] =
                                   [board |-> board, options |-> options]],
                              NoTrial)
           /\ tried' = Append([tried EXCEPT ![Len(stack)].digits = @ \cup {num}],
                              NoTried)
    /\ step' = NoStep
    /\ UNCHANGED <<game, rng, harness, last_backtrack, done, grid0, terminal_count, placed, after_terminal>>

\* solver.py 262-270 and 286-295, on resumption after the attempt step: the
\* elimination leaves a peer without options, so the trial is undone at once.
DeadEnd ==
    /\ ~done /\ Top.pc = "attempt"
    /\ LET row == Top.cell[1]
           col == Top.cell[2]
           num == Top.num
           placed_board == place_digit(board, row, col, num)
           updated == update_cell_options(placed_board, options, row, col, num)
       IN  /\ ~updated.ok
           /\ board' = clear_digit(placed_board, row, col)
           /\ options' = remove_option(
                             restore_state(options, options[Top.cell].options,
                                           options[Top.cell].degree, row, col),
                             row, col, num)
           /\ stack' = SetTop([Top EXCEPT
                                 !.curr_cell_options = options[Top.cell].options,
                                 !.curr_cell_degree = options[Top.cell].degree,
                                 !.global_cell_options = options,
                                 !.pc = "loop"])
           /\ trial' = [trial EXCEPT ![Len(stack)] =
                            [board |-> board, options |-> options]]
           /\ tried' = [tried EXCEPT ![Len(stack)].digits = @ \cup {num}]
    /\ step' = NoStep
    /\ UNCHANGED <<game, rng, harness, last_backtrack, done, grid0, terminal_count, placed, after_terminal>>

\* (a variant that reports the cell without its digit)
success_step_without_value(f) == SolveStep(f.cell[1], f.cell[2], 0, "success")

\* solver.py 283: the success step of a frame, for its cell and its digit.
success_step(f) == SolveStep(f.cell[1], f.cell[2], f.num, "success")

\* solver.py 281-283: the recursive solve() is exhausted and a success step
\* went through this frame, which yields its own success step.
PropagateSuccess ==
    /\ ~done /\ Top.pc = "returned"
    /\ Top.solution_found
    /\ Emit(success_step(Top))
    /\ stack' = SetTop([Top EXCEPT !.pc = "success"])
    /\ UNCHANGED <<game, tried, trial, rng, board, options, last_backtrack, done, grid0, terminal_count, placed>>

\* solver.py 286-295: the recursive solve() is exhausted without a success
\* step, the trial is undone.
Undo ==
    /\ ~done /\ Top.pc = "returned"
    /\ ~Top.solution_found
    /\ board' = clear_digit(board, Top.cell[1], Top.cell[2])
    /\ options' = remove_option(
                      restore_state(Top.global_cell_options, Top.curr_cell_options,
                                    Top.curr_cell_degree, Top.cell[1], Top.cell[2]),
                      Top.cell[1], Top.cell[2], Top.num)
    /\ stack' = SetTop([Top EXCEPT !.pc = "loop"])
    /\ UNCHANGED <<game, tried, trial, rng, harness, last_backtrack, step, done, grid0, terminal_count, placed, after_terminal>>

\* (a variant in which the enclosing for loops do not look at the step)
mark_solution_found_skipped(frames) == frames

\* solver.py 276-279: the success step went through the for loop of every
\* enclosing frame, each of which has set its solution_found.
mark_solution_found(frames) ==
    [k \in 1 .. Len(frames) |->
        IF k < Len(frames) THEN [frames[k] EXCEPT !.solution_found = TRUE]
        ELSE frames[k]]

\* solver.py 240 and 284 with 278-279, on resumption after a success step:
\* every enclosing for loop sets solution_found, and the frame returns.
ResumeSuccess ==
    /\ ~done /\ Top.pc \in {"terminal", "success"}
    /\ step' = NoStep
    /\ Return(mark_solution_found(stack))
    /\ UNCHANGED <<game, rng, harness, board, options, last_backtrack, grid0, terminal_count, placed,
                   after_terminal>>

Next ==
    \/ FoundSolution
    \/ SelectCell
    \/ YieldClear
    \/ ResumeClear
    \/ NoValue
    \/ SelectValue
    \/ ResumeBacktrack
    \/ Place
    \/ DeadEnd
    \/ PropagateSuccess
    \/ Undo
    \/ ResumeSuccess

Spec == Init /\ [][Next]_vars

\* The caller keeps pulling steps: the generator runs whenever it can.
FairSpec == Spec /\ WF_vars(Next)

\* ------------------------------------------------- two solves from one seed
\* A caller seeds the random source, solves a copy of a grid and keeps the
\* steps; then it seeds the source again with the same seed and solves a
\* fresh copy of the same grid.
DetInit ==
    /\ grid0 \in InputGrids
    /\ board = grid0
    /\ options = initialize_state(grid0)
    /\ last_backtrack = None
    /\ stack = <<NewFrame>>
    /\ trial = <<NoTrial>>
    /\ tried = <<NoTried>>
    /\ step = NoStep
    /\ done = FALSE
    /\ terminal_count = 0
    /\ placed = <<>>
    /\ after_terminal = <<>>
    /\ \E seed \in 0 .. MaxSeed :
          /\ rng = <<seed>>
          /\ harness = [run |-> 1, seed |-> <<seed>>, stream |-> <<>>,
                        first_stream |-> <<>>]
    /\ game = NoGame

\* The second solve: random.seed(seed) and solve(copy of the grid).
SolveAgain ==
    /\ done /\ harness.run = 1
    /\ NewSolver(grid0)
    /\ rng' = harness.seed
    /\ harness' = [harness EXCEPT !.run = 2, !.first_stream = harness.stream,
                                  !.stream = <<>>]
    /\ step' = NoStep
    /\ done' = FALSE
    /\ terminal_count' = 0
    /\ placed' = <<>>
    /\ after_terminal' = <<>>
    /\ UNCHANGED <<game, grid0>>

DetNext == Next \/ SolveAgain

DetSpec == DetInit /\ [][DetNext]_vars

\* ------------------------------------------------------------ game.py: Box
\* Box.draft is None when the box holds no draft.
NoDraft == 0

Box(value, fixed, draft, state) ==
    [value |-> value, fixed |-> fixed, draft |-> draft, state |-> state]

clear_value(box) == [box EXCEPT !.value = 0, !.draft = NoDraft]

set_value(box, value) == [box EXCEPT !.value = value, !.draft = NoDraft]

toggle_draft(box, value) ==
    [box EXCEPT !.value = 0,
                !.draft = IF box.draft = value THEN NoDraft ELSE value]

\* ---------------------------------------------------------- game.py: Board
\* The puzzle generate_board hands out: the solved board with its first
\* GameEmptied cells emptied, except one.  It has a completion, and one entry
\* that no given rules out can leave it without any.
GamePuzzles ==
    { [c \in Cells |-> IF c \in Prefix(GameEmptied) \ {CellAt(GameKept)} THEN 0
                       ELSE Solution[c]] }

\* The cells the user clicks on.
ClickCells == { CellAt(k) : k \in GameKept .. (GameKept + ClickSpan - 1) }

\* generate_board calls random.seed(): the source is left in a state that the
\* program does not determine.
SeededSources == { <<seed>> : seed \in 0 .. MaxSeed }

\* Board._create_boxes: a box is fixed when the puzzle gives its value.
create_boxes(puzzle) ==
    [c \in Cells |-> Box(puzzle[c], puzzle[c] # 0, NoDraft, "NONE")]

\* Board.__init__.  Three fields are not in the source: ops counts the
\* operations of the user, solve_op is the count at the last Board.solve (0:
\* none yet), and completion_handled tells that the animation timer has fired
\* on the emptied queue of the last Board.solve.
NewBoard(puzzle) ==
    [boxes |-> create_boxes(puzzle),
     box_selected |-> None,
     incorrect_attempts |-> 0,
     state |-> "playing",
     conflict_cells |-> {},
     conflict_timer |-> FALSE,
     animation_queue |-> <<>>,
     animation_timer |-> FALSE,
     ops |-> 0,
     solve_op |-> 0,
     completion_handled |-> FALSE]

\* The values of the boxes, as Board.solve copies them for the solver.
BoxValues(g) == [c \in Cells |-> g.boxes[c].value]

\* (a variant that leaves out the scan of the column)
is_valid_placement_without_column(boxes, row, col, value) ==
    /\ \A j \in Rows : boxes[<<row, j>>].value # value
    /\ \A c \in BoxCells(row, col) : boxes[c].value # value

\* Board._is_valid_placement: no box of the row, the column or the box holds
\* the value.
is_valid_placement(boxes, row, col, value) ==
    /\ \A j \in Rows : boxes[<<row, j>>].value # value
    /\ \A i \in Rows : boxes[<<i, col>>].value # value
    /\ \A c \in BoxCells(row, col) : boxes[c].value # value

\* Board._find_conflicts: the cells that hold the value.
find_conflicts(boxes, row, col, value) ==
    { c \in RowCells(row) \cup ColCells(col) \cup BoxCells(row, col) :
        boxes[c].value = value }

\* Board.is_finished: no box is empty.
is_finished(boxes) == \A c \in Cells : boxes[c].value # 0

\* Board._all_cells_successful.
all_cells_successful(boxes) ==
    \A c \in Cells :
        (~boxes[c].fixed /\ boxes[c].value # 0) => boxes[c].state = "SUCCESS"

\* for_each_box at game.py 295: every box that is not fixed is marked.
mark_successful(boxes) ==
    [c \in Cells |-> IF boxes[c].fixed THEN boxes[c]
                     ELSE [boxes[c] EXCEPT !.state = "SUCCESS"]]

\* Board.select.
select(g, row, col) ==
    IF g.boxes[<<row, col>>].fixed THEN g
    ELSE LET cleared == IF g.box_selected # None
                        THEN [g.boxes EXCEPT ![g.box_selected].state = "NONE"]
                        ELSE g.boxes
         IN  [g EXCEPT !.boxes = [cleared EXCEPT ![<<row, col>>].state = "SELECTED"],
                       !.box_selected = <<row, col>>]

\* What Board.place_number returns.
place_number_returns(g, value) ==
    /\ g.box_selected # None
    /\ ~g.boxes[g.box_selected].fixed
    /\ \/ g.boxes[g.box_selected].value = value
       \/ is_valid_placement(g.boxes, g.box_selected[1], g.box_selected[2], value)

\* Board.place_number: the Board it leaves.
place_number(g, value) ==
    LET sel == g.box_selected
    IN  IF sel = None \/ g.boxes[sel].fixed THEN g
        ELSE IF g.boxes[sel].value = value
        THEN [g EXCEPT !.boxes[sel] = clear_value(@)]
        ELSE IF is_valid_placement(g.boxes, sel[1], sel[2], value)
        THEN LET set == [g.boxes EXCEPT ![sel] = set_value(@, value)]
             IN  IF g.state = "playing" /\ is_finished(set)
                 THEN [g EXCEPT !.boxes = mark_successful(set),
                                !.state = "completed"]
                 ELSE [g EXCEPT !.boxes = set]
        ELSE [g EXCEPT !.conflict_cells = find_conflicts(g.boxes, sel[1], sel[2], value),
                       !.conflict_timer = TRUE,
                       !.incorrect_attempts = @ + 1,
                       !.boxes[sel].state = "NONE",
                       !.box_selected = None]

\* Board.clear.
clear(g) ==
    IF g.box_selected # None /\ ~g.boxes[g.box_selected].fixed
    THEN [g EXCEPT !.boxes[g.box_selected] = clear_value(@)]
    ELSE g

\* Board.sketch.
sketch(g, value) ==
    IF g.box_selected # None /\ ~g.boxes[g.box_selected].fixed
    THEN [g EXCEPT !.boxes[g.box_selected] = toggle_draft(@, value)]
    ELSE g

\* Board.try_place_draft: a refused draft is dropped.
try_place_draft(g) ==
    LET sel == g.box_selected
    IN  IF sel # None /\ g.boxes[sel].draft # NoDraft
        THEN IF place_number_returns(g, g.boxes[sel].draft)
             THEN place_number(g, g.boxes[sel].draft)
             ELSE [place_number(g, g.boxes[sel].draft) EXCEPT
                       !.boxes[sel].draft = NoDraft]
        ELSE g

\* Board.reset_game: new boxes; the animation queue is not touched.
reset_game(g, puzzle) ==
    [g EXCEPT !.boxes = create_boxes(puzzle),
              !.box_selected = None,
              !.incorrect_attempts = 0,
              !.state = "playing"]

\* Board._handle_animation_completion: the game is completed when no box is
\* empty; otherwise nothing changes.
handle_animation_completion(g) ==
    IF g.state = "solving" /\ is_finished(g.boxes)
    THEN [g EXCEPT !.boxes = IF all_cells_successful(g.boxes) THEN g.boxes
                             ELSE mark_successful(g.boxes),
                   !.state = "completed"]
    ELSE g

\* Board._update_board_for_animation_step and its four handlers, and the
\* recursion-end success signal; each sets the animation timer.
update_board_for_animation_step(g, s) ==
    LET c == <<s.row, s.col>>
        timed == [g EXCEPT !.animation_timer = TRUE]
    IN  IF s.step_type = "success" /\ s.row = -1 /\ s.col = -1 THEN timed
        ELSE IF s.step_type = "attempt"
        THEN [timed EXCEPT !.boxes[c].value = s.value, !.boxes[c].state = "ATTEMPT"]
        ELSE IF s.step_type = "success"
        THEN LET set == [g.boxes EXCEPT
                            ![c] = [set_value(@, s.value) EXCEPT !.state = "SUCCESS"]]
             IN  [timed EXCEPT !.boxes = set,
                               !.state = IF is_finished(set) /\ all_cells_successful(set)
                                         THEN "completed" ELSE @]
        ELSE IF s.step_type = "clear"
        THEN [timed EXCEPT !.boxes[c].state = "NONE"]
        ELSE [timed EXCEPT !.boxes[c] = [clear_value(@) EXCEPT !.state = "BACKTRACK"]]

\* Board._animate_next_step.
animate_next_step(g) ==
    IF g.animation_queue = <<>> THEN handle_animation_completion(g)
    ELSE update_board_for_animation_step(
             [g EXCEPT !.animation_queue = Tail(@)], Head(g.animation_queue))

\* No solver is running: the variables of the solver keep their values.
SolverUnchanged ==
    UNCHANGED <<board, options, last_backtrack, stack, step, done, grid0,
                terminal_count, placed, after_terminal, rng, tried, trial,
                harness>>

\* The event loop is between two events: no call of Board.solve is under way.
BetweenEvents == game.state # "none" /\ harness.run = 0

\* One more operation of the user, while the bound allows it.
CountOp(g) == [g EXCEPT !.ops = game.ops + 1]

\* An operation of the user that does not touch the solver.
UserOp(g) ==
    /\ BetweenEvents
    /\ game.ops < MaxOps
    /\ game' = CountOp(g)
    /\ UNCHANGED <<board, options, last_backtrack, stack, step, done, grid0,
                   terminal_count, placed, after_terminal, rng, tried, trial,
                   harness>>

\* A game: the Board as constructed, no solver yet.
GameInit ==
    /\ \E puzzle \in GamePuzzles :
          /\ game = NewBoard(puzzle)
          /\ grid0 = puzzle
          /\ board = puzzle
    /\ options = [c \in Cells |-> CellState({}, -1)]
    /\ last_backtrack = None
    /\ stack = <<>>
    /\ trial = <<>>
    /\ tried = <<>>
    /\ step = NoStep
    /\ done = TRUE
    /\ terminal_count = 0
    /\ placed = <<>>
    /\ after_terminal = <<>>
    /\ rng \in SeededSources
    /\ harness = NoHarness

\* A mouse click on a cell of the board.
Select == \E c \in ClickCells : UserOp(select(game, c[1], c[2]))

\* A digit key.
Sketch == \E value \in Digits : UserOp(sketch(game, value))

\* The return key.
TryPlaceDraft == UserOp(try_place_draft(game))

\* Board.place_number called with any digit.
PlaceNumber == \E value \in Digits : UserOp(place_number(game, value))

\* The backspace key.
Clear == UserOp(clear(game))

\* The new-game button and the difficulty buttons.
ResetGame ==
    /\ BetweenEvents
    /\ game.ops < MaxOps
    /\ \E puzzle \in GamePuzzles : game' = CountOp(reset_game(game, puzzle))
    /\ rng' \in SeededSources
    /\ UNCHANGED <<board, options, last_backtrack, stack, step, done, grid0,
                   terminal_count, placed, after_terminal, tried, trial, harness>>

\* The conflict timer fires: the highlights go and the timer stops.
ConflictTimer ==
    /\ BetweenEvents
    /\ game.conflict_timer
    /\ game' = [game EXCEPT !.conflict_cells = {}, !.conflict_timer = FALSE]
    /\ SolverUnchanged

\* The space key, Board.solve up to game.py 379: the selection is cleared, the
\* values are copied, the state is SOLVING and list() starts to pull the
\* steps of solve(board).
BoardSolve ==
    /\ BetweenEvents
    /\ game.ops < MaxOps
    /\ LET g == IF game.box_selected # None
                THEN [game EXCEPT !.boxes[game.box_selected].state = "NONE",
                                  !.box_selected = None]
                ELSE game
       IN  /\ game' = CountOp([g EXCEPT !.state = "solving",
                                         !.solve_op = game.ops + 1,
                                         !.completion_handled = FALSE])
           /\ NewSolver(BoxValues(g))
           /\ grid0' = BoxValues(g)
    /\ harness' = [NoHarness EXCEPT !.run = 1]
    /\ step' = NoStep
    /\ done' = FALSE
    /\ terminal_count' = 0
    /\ placed' = <<>>
    /\ after_terminal' = <<>>
    /\ UNCHANGED rng

\* Board.solve from game.py 379 on: the stream is exhausted, the list is the
\* animation queue; an empty list is an error, otherwise the first step is
\* animated.
SolveCollected ==
    /\ game.state # "none" /\ harness.run = 1 /\ done
    /\ LET g == [game EXCEPT !.animation_queue = harness.stream]
       IN  game' = IF harness.stream # <<>> THEN animate_next_step(g)
                   ELSE [g EXCEPT !.state = "error"]
    /\ harness' = NoHarness
    /\ UNCHANGED <<board, options, last_backtrack, stack, step, done, grid0,
                   terminal_count, placed, after_terminal, rng, tried, trial>>

\* The animation timer fires while the game is SOLVING.
AnimateNextStep ==
    /\ BetweenEvents
    /\ game.animation_timer /\ game.state = "solving"
    /\ game' = [animate_next_step(game) EXCEPT
                    !.completion_handled = @ \/ game.animation_queue = <<>>]
    /\ SolverUnchanged

GameNext ==
    \/ Select
    \/ Sketch
    \/ TryPlaceDraft
    \/ PlaceNumber
    \/ Clear
    \/ ResetGame
    \/ ConflictTimer
    \/ BoardSolve
    \/ Next
    \/ SolveCollected
    \/ AnimateNextStep

GameSpec == GameInit /\ [][GameNext]_vars

\* ================================================================ claims
\* Peers as the game defines them, independently of the solver's loops.
SameBox(c1, c2) ==
    /\ c1[1] \div BoxSize = c2[1] \div BoxSize
    /\ c1[2] \div BoxSize = c2[2] \div BoxSize

Peer(c1, c2) ==
    /\ c1 # c2
    /\ (c1[1] = c2[1] \/ c1[2] = c2[2] \/ SameBox(c1, c2))

\* No two peer cells hold equal nonzero values.
PeerConsistent(b) ==
    \A c1 \in Cells : \A c2 \in Cells :
        (Peer(c1, c2) /\ b[c1] # 0) => b[c1] # b[c2]

EmptyCells(b) == { c \in Cells : b[c] = 0 }

Full(b) == EmptyCells(b) = {}

FirstEmpty(b) ==
    CHOOSE c \in EmptyCells(b) :
        \A d \in EmptyCells(b) : N * c[1] + c[2] <= N * d[1] + d[2]

\* The empty cells of b can be filled so that every filled-in digit differs
\* from the values of all its peers (a plain exhaustive search, first empty
\* cell first).
RECURSIVE Fillable(_)
Fillable(b) ==
    IF Full(b) THEN TRUE
    ELSE LET c == FirstEmpty(b)
         IN  \E d \in Digits :
                /\ \A c2 \in Cells : Peer(c, c2) => b[c2] # d
                /\ Fillable([b EXCEPT ![c] = d])

\* b has at least one valid completion.
Solvable(b) == PeerConsistent(b) /\ Fillable(b)

IsTerminal(s) == s.step_type = "success" /\ s.row = -1 /\ s.col = -1

\* C1: for a starting grid without a peer conflict, at every attempt step
\* and every success step of the stream the grid holds no two equal nonzero
\* values among peers.
C1_InvariantPreservation ==
    (PeerConsistent(grid0) /\ step.step_type \in {"attempt", "success"})
        => PeerConsistent(board)

\* C1 witness: an attempt step deep in the search of a conflict-free grid,
\* with digits already placed by the enclosing frames.
C1_Witness ==
    /\ PeerConsistent(grid0)
    /\ step.step_type = "attempt"
    /\ Len(stack) >= 3
    /\ board # grid0

\* C2 (as stated, for every input grid): once a stream that emitted the
\* terminal success step is exhausted, the grid is full, every row, column
\* and box holds pairwise distinct digits, and the given cells are unchanged.
C2_SolutionValidity ==
    (done /\ terminal_count > 0) =>
        /\ Full(board)
        /\ PeerConsistent(board)
        /\ \A c \in Cells : grid0[c] # 0 => board[c] = grid0[c]

BoardBefore(k) ==
    [c \in Cells |-> IF \E j \in k .. Len(stack) : stack[j].cell = c THEN 0 ELSE board[c]]

C4_UnsolvableNoSuccess ==
    ~Solvable(grid0) => step.step_type # "success"

\* C5 (as stated): a starting grid with a peer conflict fails fast: no
\* attempt step is emitted and no cell is written.
C5_FailFast ==
    ~PeerConsistent(grid0) => (step.step_type # "attempt" /\ board = grid0)

\* C6: the step stream is finite for every input grid: pulling steps always
\* reaches exhaustion.
C6_Termination == <>done

\* C6 witness: the stream of a grid with conflicting given cells is
\* exhausted after a search that backtracked out of the root frame.
C6_Witness ==
    /\ done
    /\ ~PeerConsistent(grid0)
    /\ terminal_count = 0
    /\ last_backtrack # None

\* C7 (as stated): the legality predicate is true iff no cell other than
\* (row, col) in the same row, column or box holds the value.
C7_LegalIffNoOtherCell ==
    \A c \in Cells : \A value \in Digits :
        is_valid(board, c[1], c[2], value)
            <=> (\A c2 \in Cells : Peer(c, c2) => board[c2] # value)

\* C7 (amended): the legality predicate is true iff no cell of the row, the
\* column or the box, (row, col) itself included, holds the value; so it is
\* false for a value already in the row.
C7_LegalIffNoCell ==
    \A c \in Cells : \A value \in 0 .. N :
        /\ is_valid(board, c[1], c[2], value)
              <=> (\A c2 \in Cells : (c2 = c \/ Peer(c, c2)) => board[c2] # value)
        /\ (\E j \in Rows : board[<<c[1], j>>] = value)
              => ~is_valid(board, c[1], c[2], value)

\* C7 witness: at an attempt step the predicate accepts a digit for an empty cell,
\* rejects another because only a box peer holds it, and rejects the digit
\* of a filled cell because of that cell alone.
C7_Witness ==
    /\ step.step_type = "attempt"
    /\ \E c \in Cells : \E value \in Digits :
          board[c] = 0 /\ is_valid(board, c[1], c[2], value)
    /\ \E c \in Cells : \E value \in Digits :
          /\ board[c] = 0
          /\ \A c2 \in Cells : (c2[1] = c[1] \/ c2[2] = c[2]) => board[c2] # value
          /\ ~is_valid(board, c[1], c[2], value)
    /\ \E c \in Cells :
          /\ board[c] # 0
          /\ \A c2 \in Cells : Peer(c, c2) => board[c2] # board[c]
          /\ ~is_valid(board, c[1], c[2], board[c])

IsPrefix(s, t) ==
    /\ Len(s) <= Len(t)
    /\ \A i \in 1 .. Len(s) : s[i] = t[i]

C9_OutcomeIndependent ==
    done => ((terminal_count > 0) <=> Fillable(grid0))

\* C9 witness: an exhausted, successful stream of a grid that agrees with
\* the solved board on its given cells and was completed to another board:
\* the tie-breaks took the search to a different solution.
C9_Witness ==
    /\ done
    /\ terminal_count > 0
    /\ \A c \in Cells : grid0[c] # 0 => grid0[c] = Solution[c]
    /\ board # Solution

\* C10: after the terminal success step every later step is a per-cell
\* success step; there is exactly one for each cell the search filled, in
\* reverse order of placement, each with the digit the grid holds there.
C10_SuccessUnwinding ==
    terminal_count > 0 =>
        /\ terminal_count = 1
        /\ Len(after_terminal) <= Len(placed)
        /\ \A i \in 1 .. Len(after_terminal) :
              LET cell == placed[Len(placed) + 1 - i][1]
              IN  after_terminal[i] = SolveStep(cell[1], cell[2], board[cell], "success")
        /\ { placed[i][1] : i \in 1 .. Len(placed) } = EmptyCells(grid0)
        /\ Len(placed) = Cardinality(EmptyCells(grid0))
        /\ done => Len(after_terminal) = Len(placed)

\* C10 witness: an exhausted stream with several per-cell success steps
\* after the terminal one.
C10_Witness ==
    /\ done
    /\ Len(after_terminal) >= 3

\* The grid is a valid complete solution with exactly one cell set to 0.
OneMissing(b) ==
    /\ Cardinality(EmptyCells(b)) = 1
    /\ Solvable(b)

\* The digit no peer of cell c holds.
MissingDigit(b, c) == CHOOSE d \in Digits : \A c2 \in Cells : Peer(c, c2) => b[c2] # d

\* C11: for a valid complete solution with exactly one cell set to 0, the
\* stream holds exactly one attempt step, its first step, for that cell and
\* its missing digit; every later step is a success step; there is no
\* backtrack step and no clear step.
C11_SingleMissingCell ==
    OneMissing(grid0) =>
        LET c == FirstEmpty(grid0)
            s == harness.stream
        IN  /\ s # <<>> =>
                  s[1] = SolveStep(c[1], c[2], MissingDigit(grid0, c), "attempt")
            /\ \A i \in 2 .. Len(s) : s[i].step_type = "success"
            /\ done => Len(s) >= 2

\* C11 witness: the exhausted stream of such a grid, an attempt step and
\* the success steps behind it.
C11_Witness ==
    /\ OneMissing(grid0)
    /\ done
    /\ Len(harness.stream) = 3
    /\ harness.stream[1].step_type = "attempt"

\* The digits no cell in the row, the column or the box of c holds.
FreeDigits(b, c) == { d \in Digits : \A c2 \in Cells : Peer(c, c2) => b[c2] # d }

\* The stream is suspended at a step.
Suspended == step # NoStep

\* C12 (as stated): at every suspension point the candidate set of every
\* empty cell is exactly the set of digits no cell of its row, column or
\* box holds.
C12_DomainExact ==
    Suspended =>
        \A c \in Cells : board[c] = 0 => options[c].options = FreeDigits(board, c)

\* C12 (amended): at every suspension point the candidate set of every empty
\* cell other than the cell the innermost frame branches on is exactly that
\* set; the candidate set of the branched cell is a subset of it, and it
\* holds the digit of an attempt step.
C12_DomainExactButBranched ==
    Suspended =>
        /\ \A c \in Cells :
              (board[c] = 0 /\ c # Top.cell) => options[c].options = FreeDigits(board, c)
        /\ \A c \in Cells :
              board[c] = 0 => options[c].options \subseteq FreeDigits(board, c)
        /\ step.step_type = "attempt" => step.value \in options[Top.cell].options

\* C12 witness: an attempt step at a cell that has lost a digit no peer
\* holds, while another cell is empty.
C12_Witness ==
    /\ step.step_type = "attempt"
    /\ options[Top.cell].options # FreeDigits(board, Top.cell)
    /\ \E c \in Cells : board[c] = 0 /\ c # Top.cell

\* C13: the module-level legality predicate and the search's own predicate
\* return the same result for every grid, cell and digit, and the step of
\* the search that evaluates the predicate leaves the grid as it was.
C13_PredicatesAgree ==
    /\ [](\A c \in Cells : \A num \in 0 .. N :
             module_is_valid(board, c[1], c[2], num) <=> is_valid(board, c[1], c[2], num))
    /\ [][(/\ stack # <<>>
           /\ Top.pc \in {"loop", "value"}
           /\ Len(stack') = Len(stack)
           /\ stack'[Len(stack')].pc \in {"attempt", "loop"})
             => board' = board]_vars

\* C13 witness: the search has just evaluated the predicate (an attempt
\* step), on a grid with placements where both predicates accept a digit
\* for one cell and both reject a digit for another.
C13_Witness ==
    /\ step.step_type = "attempt"
    /\ board # grid0
    /\ is_valid(board, step.row, step.col, step.value)
    /\ module_is_valid(board, step.row, step.col, step.value)
    /\ \E c \in Cells : \E num \in Digits :
          /\ ~module_is_valid(board, c[1], c[2], num)
          /\ ~is_valid(board, c[1], c[2], num)

\* C14: when the stream is exhausted without a terminal success step the
\* grid is, cell for cell, the grid that was passed to solve.
C14_FailureLeavesGrid ==
    (done /\ terminal_count = 0) => board = grid0

\* C14 witness: a stream exhausted without success in which a frame below
\* the root gave up, so digits had been written and were taken back.
C14_Witness ==
    /\ done
    /\ terminal_count = 0
    /\ board = grid0
    /\ \E i \in 1 .. Len(harness.stream) :
          /\ harness.stream[i].step_type = "backtrack"
          /\ <<harness.stream[i].row, harness.stream[i].col>> # last_backtrack

\* The step undoes a trial: the top frame goes from the resumption after
\* its attempt step (dead end) or from the end of the recursive search
\* (exhausted without success) back to the top of its loop.
UndoesTrial ==
    /\ stack # <<>>
    /\ Top.pc \in {"attempt", "returned"}
    /\ Len(stack') = Len(stack)
    /\ stack'[Len(stack)].pc = "loop"

\* C15: when a trial of digit d at cell (r,c) fails, by a dead end or by an
\* exhausted recursive search, the grid is again the grid as it was when d
\* was tried, and the table (candidate sets and degrees of all cells) is
\* the table as it was then except that d has left the candidate set of
\* (r,c).
C15_UndoRestores ==
    [][UndoesTrial =>
          LET before == trial'[Len(stack)]
              cell == Top.cell
          IN  /\ board' = before.board
              /\ before.board[cell] = 0
              /\ Top.num \in before.options[cell].options
              /\ options' = [before.options EXCEPT ![cell].options = @ \ {Top.num}]]_vars

\* C15 witness: a frame below the root is back at the top of its loop
\* after the recursive search under its digit gave up in another cell; the
\* grid is the grid of the trial's start and the digit has left the cell's
\* candidate set.
C15_Witness ==
    /\ Len(stack) >= 2
    /\ Top.pc = "loop"
    /\ trial[Len(stack)] # NoTrial
    /\ last_backtrack # None
    /\ last_backtrack # Top.cell
    /\ board = trial[Len(stack)].board
    /\ Top.num \notin options[Top.cell].options
    /\ Top.num \in trial[Len(stack)].options[Top.cell].options

\* C16 (as stated): the digit the value selector returns, seen at the
\* attempt step that follows, is in the candidate set of the chosen cell
\* and its count of empty peers listing it is the minimum over all digits
\* of that candidate set.
C16_LeastConstraining ==
    step.step_type = "attempt" =>
        LET row == Top.cell[1]
            col == Top.cell[2]
            own == options[Top.cell].options
        IN  /\ step.value \in own
            /\ \A d \in own :
                  constraining_count(board, options, row, col, step.value)
                     <= constraining_count(board, options, row, col, d)

\* Cell c is empty, its candidate set is the smallest among the empty cells
\* and its degree the largest among the empty cells with a set of that size.
MostConstrained(b, opts, c) ==
    /\ b[c] = 0
    /\ \A e \in EmptyCells(b) :
          Cardinality(opts[c].options) <= Cardinality(opts[e].options)
    /\ \A e \in EmptyCells(b) :
          Cardinality(opts[e].options) = Cardinality(opts[c].options)
             => opts[e].degree <= opts[c].degree

\* C17: the cell selector returns no cell iff the grid has no empty cell;
\* otherwise every cell it can return, and the cell a frame gets from it,
\* is an empty cell with the smallest candidate set and, among those, the
\* largest degree.
C17_CellChoice ==
    /\ [](LET candidates == get_next_cell(board, options)
          IN  /\ (candidates = <<>>) <=> Full(board)
              /\ \A i \in 1 .. Len(candidates) :
                    MostConstrained(board, options, candidates[i]))
    /\ [][(/\ stack # <<>>
           /\ Top.pc = "start"
           /\ Len(stack') = Len(stack)
           /\ stack'[Len(stack)].pc = "loop")
             => MostConstrained(board, options, stack'[Len(stack)].cell)]_vars

\* C17 witness: a frame holds the cell it got from the selector, chosen by
\* its degree among several empty cells with a smallest candidate set, while
\* another empty cell has a larger set.
C17_Witness ==
    /\ stack # <<>>
    /\ Top.pc = "loop"
    /\ trial[Len(stack)] = NoTrial
    /\ MostConstrained(board, options, Top.cell)
    /\ \E e \in EmptyCells(board) :
          Cardinality(options[e].options) > Cardinality(options[Top.cell].options)
    /\ \E e \in EmptyCells(board) :
          /\ Cardinality(options[e].options) = Cardinality(options[Top.cell].options)
          /\ options[e].degree < options[Top.cell].degree

\* The empty peers of cell c on grid b.
EmptyPeers(b, c) == { p \in Cells : Peer(c, p) /\ b[p] = 0 }

\* What the elimination for digit num written at cell c has to leave behind
\* when it reports success, from table before to table after.
Eliminated(b, before, after, c, num) ==
    /\ \A p \in EmptyPeers(b, c) : num \notin after[p].options
    /\ after[c].options = {}
    /\ \A e \in Cells :
          (e # c /\ ~Peer(c, e)) => after[e].options = before[e].options

\* C18: the elimination for the digit written at (row, col) reports failure
\* iff some empty peer is left without a candidate once the digit is
\* removed; when it reports success the digit is in no empty peer's
\* candidate set, the set of (row, col) is empty and the sets of non-peer
\* cells are unchanged.  Stated for the call the search is about to make at
\* an attempt step, and for the step that makes it.
C18_Elimination ==
    /\ [](step.step_type = "attempt" =>
            LET c == Top.cell
                num == Top.num
                b == place_digit(board, c[1], c[2], num)
                updated == update_cell_options(b, options, c[1], c[2], num)
            IN  /\ ~updated.ok
                      <=> (\E p \in EmptyPeers(b, c) : options[p].options \ {num} = {})
                /\ updated.ok => Eliminated(b, options, updated.options, c, num))
    /\ [][(stack # <<>> /\ Top.pc = "attempt") =>
             IF Len(stack') > Len(stack)
             THEN Eliminated(board', options, options', Top.cell, Top.num)
             ELSE \E p \in EmptyPeers(board, Top.cell) :
                     options[p].options \ {Top.num} = {}]_vars

\* C18 witness: the elimination has just succeeded for a digit that a row
\* peer, a column peer and a box peer listed, with an empty non-peer cell
\* on the grid.
C18_Witness ==
    /\ Len(stack) >= 2
    /\ Top.pc = "start"
    /\ LET parent == stack[Len(stack) - 1]
           before == trial[Len(stack) - 1].options
           c == parent.cell
       IN  /\ Eliminated(board, before, options, c, parent.num)
           /\ \E p \in EmptyPeers(board, c) :
                 p[1] = c[1] /\ parent.num \in before[p].options
           /\ \E p \in EmptyPeers(board, c) :
                 p[2] = c[2] /\ parent.num \in before[p].options
           /\ \E p \in EmptyPeers(board, c) :
                 p[1] # c[1] /\ p[2] # c[2] /\ parent.num \in before[p].options
           /\ \E e \in EmptyCells(board) : e # c /\ ~Peer(c, e)

\* Writing the attempted digit of the top frame leaves some empty peer of
\* its cell without a candidate.
LeavesDeadPeer ==
    \E p \in EmptyPeers(place_digit(board, Top.cell[1], Top.cell[2], Top.num), Top.cell) :
        options[p].options \ {Top.num} = {}

\* The top frame stands at the top of its loop right after a dead end: it
\* has tried a digit and no frame below it has given up since.
AfterDeadEnd ==
    /\ stack # <<>>
    /\ Top.pc = "loop"
    /\ trial[Len(stack)] # NoTrial
    /\ last_backtrack = None

\* C19: if writing the attempted digit leaves an empty peer without a
\* candidate, no recursive search is started (no frame is entered) and the
\* step that follows the attempt step in the stream is an attempt step or
\* a backtrack step for the same cell.
C19_DeadEndStaysInFrame ==
    /\ [][(stack # <<>> /\ Top.pc = "attempt" /\ LeavesDeadPeer) =>
             /\ Len(stack') = Len(stack)
             /\ step' = NoStep
             /\ AfterDeadEnd'
             /\ stack'[Len(stack)].cell = Top.cell]_vars
    /\ [][AfterDeadEnd =>
             /\ step'.step_type \in {"attempt", "backtrack"}
             /\ <<step'.row, step'.col>> = Top.cell
             /\ Len(stack') = Len(stack)]_vars

\* C19 witness: a backtrack step that follows directly the attempt step of
\* a digit whose elimination met a dead peer, in a frame below the root.
C19_Witness ==
    /\ Len(stack) >= 2
    /\ step.step_type = "backtrack"
    /\ <<step.row, step.col>> = Top.cell
    /\ last_backtrack = None
    /\ trial[Len(stack)] # NoTrial
    /\ trial[Len(stack)].board = board
    /\ options[Top.cell].options = {}
    /\ \E p \in EmptyPeers(board, Top.cell) :
          trial[Len(stack)].options[p].options \ {Top.num} = {}

\* C20: a backtrack step for cell (r,c) is emitted only when the candidate
\* set of (r,c) is empty, every digit that was a candidate for it on entry
\* to the frame having been tried and undone (or there was none); the cell
\* is empty on the grid at that moment, and the frame emits no further
\* step: on resumption it returns.
C20_BacktrackOnExhaustion ==
    /\ [](step.step_type = "backtrack" =>
            /\ <<step.row, step.col>> = Top.cell
            /\ step.value = 0
            /\ options[Top.cell].options = {}
            /\ tried[Len(stack)].digits = tried[Len(stack)].on_entry
            /\ board[Top.cell] = 0
            /\ trial[Len(stack)] # NoTrial => board = trial[Len(stack)].board)
    /\ [][(stack # <<>> /\ Top.pc = "backtrack") =>
             /\ Len(stack') = Len(stack) - 1
             /\ step' = NoStep]_vars

\* C20 witness: a backtrack step of a frame that had several candidates on
\* entry and has tried them all; its cell is empty again.
C20_Witness ==
    /\ step.step_type = "backtrack"
    /\ board[Top.cell] = 0
    /\ Cardinality(tried[Len(stack)].on_entry) >= 2
    /\ tried[Len(stack)].digits = tried[Len(stack)].on_entry
    /\ options[Top.cell].options = {}

\* C21: every clear step has value 0 and comes directly after a backtrack
\* step for the same cell; every backtrack step that has a successor in the
\* stream is directly followed by such a clear step.
C21_ClearFollowsBacktrack ==
    LET s == harness.stream
    IN  /\ \A i \in 1 .. Len(s) :
              s[i].step_type = "clear" =>
                  /\ s[i].value = 0
                  /\ i > 1
                  /\ s[i - 1] = SolveStep(s[i].row, s[i].col, 0, "backtrack")
        /\ \A i \in 1 .. (Len(s) - 1) :
              s[i].step_type = "backtrack" =>
                  s[i + 1] = SolveStep(s[i].row, s[i].col, 0, "clear")
        /\ step.step_type = "clear" =>
              (step.value = 0 /\ <<step.row, step.col>> = last_backtrack)

\* C21 witness: an exhausted stream with a backtrack step followed by its
\* clear step for a cell with different row and column, and a last step
\* that is a backtrack step without a clear step.
C21_Witness ==
    /\ done
    /\ Len(harness.stream) >= 3
    /\ harness.stream[Len(harness.stream)].step_type = "backtrack"
    /\ \E i \in 2 .. Len(harness.stream) :
          /\ harness.stream[i].step_type = "clear"
          /\ harness.stream[i].row # harness.stream[i].col

\* C22: the terminal success step (row = col = -1) is emitted at most once
\* per stream, and only when the grid holds no empty cell.
C22_TerminalOnceWhenFull ==
    /\ terminal_count <= 1
    /\ IsTerminal(step) => Full(board)
    /\ terminal_count > 0 => Full(board)

\* C22 witness: the terminal success step at the bottom of a deep search
\* that started from a grid with empty cells.
C22_Witness ==
    /\ IsTerminal(step)
    /\ terminal_count = 1
    /\ Full(board)
    /\ Len(stack) >= 5
    /\ ~Full(grid0)

\* C23: solve yields at least one step, and the last step of an exhausted
\* stream (the step the stream is suspended at when the root frame
\* returns) is either a success step, the terminal one having been emitted
\* on a full grid, or a backtrack step for the cell the root frame chose,
\* no terminal success step having been emitted.
C23_LastStep ==
    [][(~done /\ done') =>
          /\ Len(stack) = 1
          /\ step # NoStep
          /\ \/ /\ step.step_type = "success"
                /\ terminal_count = 1
                /\ Full(board')
             \/ /\ step = SolveStep(stack[1].cell[1], stack[1].cell[2], 0, "backtrack")
                /\ stack[1].cell \in Cells
                /\ terminal_count = 0
                /\ board' = grid0]_vars

\* C23 witness: the stream of a grid without conflicting given cells and
\* without a completion is exhausted; its last step was the backtrack step
\* of the root frame.
C23_Witness ==
    /\ done
    /\ PeerConsistent(grid0)
    /\ ~Fillable(grid0)
    /\ terminal_count = 0
    /\ last_backtrack \in Cells
    /\ board = grid0

\* C24: for any starting grid, in every state the candidate set of each
\* empty cell is a subset of the digits no peer holds; so the digit the
\* value selector returns is legal for its cell and the legality guard
\* before a placement never rejects (a frame never goes from the value
\* selection back to the top of its loop).
C24_GuardNeverRejects ==
    /\ [](/\ \A c \in Cells :
               board[c] = 0 => options[c].options \subseteq FreeDigits(board, c)
          /\ (stack # <<>> /\ Top.pc \in {"loop", "value"}) =>
                LET candidates == get_next_value(board, options, Top.cell[1], Top.cell[2])
                IN  \A i \in 1 .. Len(candidates) :
                       is_valid(board, Top.cell[1], Top.cell[2], candidates[i]))
    /\ [][(stack # <<>> /\ Top.pc \in {"loop", "value"} /\ Len(stack') = Len(stack))
             => stack'[Len(stack)].pc # "loop"]_vars

\* C24 witness: an attempt step below the root in the search of a grid
\* whose given cells conflict; the attempted digit is legal.
C24_Witness ==
    /\ ~PeerConsistent(grid0)
    /\ Len(stack) >= 2
    /\ step.step_type = "attempt"
    /\ is_valid(board, step.row, step.col, step.value)
    /\ step.value \in FreeDigits(board, Top.cell)

\* The positions of the active frames that hold a cell.
HoldingFrames == { k \in 1 .. Len(stack) : stack[k].cell # None }

\* C25: the number of nested frames that hold a cell never exceeds the
\* number of cells that were empty in the input grid, and no two active
\* frames hold the same cell.
C25_DepthBound ==
    /\ Cardinality(HoldingFrames) <= Cardinality(EmptyCells(grid0))
    /\ Cardinality(HoldingFrames) <= N * N
    /\ \A j \in HoldingFrames : \A k \in HoldingFrames :
          j # k => stack[j].cell # stack[k].cell
    /\ \A k \in HoldingFrames : grid0[stack[k].cell] = 0

\* C25 witness: as many nested frames hold a cell as the input grid had
\* empty cells, for a grid with many empty cells.
C25_Witness ==
    /\ Cardinality(EmptyCells(grid0)) >= 8
    /\ Cardinality(HoldingFrames) = Cardinality(EmptyCells(grid0))
    /\ Len(stack) = Cardinality(HoldingFrames) + 1

\* A solver has just been constructed: its generator has not run yet.
JustInitialized ==
    /\ Len(stack) = 1
    /\ Top.pc = "start"
    /\ ~done

\* C26: after initialization every empty cell's candidate set is the set
\* of digits minus the values present in its row, column and box, and
\* every filled cell has an empty candidate set and degree -1.
C26_InitialDomains ==
    JustInitialized =>
        /\ board = grid0
        /\ \A c \in Cells :
              IF board[c] = 0
              THEN options[c].options =
                      Digits \ { board[p] : p \in { q \in Cells : q[1] = c[1]
                                                        \/ q[2] = c[2]
                                                        \/ SameBox(c, q) } }
              ELSE options[c].options = {} /\ options[c].degree = -1

\* C26 witness: the solver constructed for the second solve of a grid that
\* has filled cells, an empty cell with several candidates and an empty
\* cell with none.
C26_Witness ==
    /\ JustInitialized
    /\ harness.run = 2
    /\ \E c \in Cells : board[c] # 0
    /\ \E c \in Cells : board[c] = 0 /\ Cardinality(options[c].options) >= 2
    /\ \E c \in Cells : board[c] = 0 /\ options[c].options = {}

\* The other empty cells of the row of c, plus those of its column, plus
\* those of its box: a cell that shares a line and the box with c counts
\* twice.
EmptyNeighbours(b, c) ==
    Cardinality({ p \in EmptyCells(b) : p # c /\ p[1] = c[1] })
  + Cardinality({ p \in EmptyCells(b) : p # c /\ p[2] = c[2] })
  + Cardinality({ p \in EmptyCells(b) : p # c /\ SameBox(c, p) })

\* C27: at every suspension point the stored degree of each empty cell is
\* the number of other empty cells in its row plus the number in its column
\* plus the number in its box on the current grid.
C27_DegreesExact ==
    Suspended =>
        \A c \in Cells : board[c] = 0 => options[c].degree = EmptyNeighbours(board, c)

\* C27 witness: an attempt step after placements and an undone trial, with
\* an empty cell whose degree counts a cell of its row and box twice.
C27_Witness ==
    /\ step.step_type = "attempt"
    /\ Len(stack) >= 3
    /\ tried[Len(stack)].digits # {}
    /\ \E c \in Cells : \E p \in Cells :
          /\ board[c] = 0 /\ board[p] = 0 /\ p # c
          /\ p[1] = c[1] /\ SameBox(c, p)
          /\ options[c].degree = EmptyNeighbours(board, c)
          /\ options[c].degree > Cardinality({ q \in EmptyCells(board) : Peer(c, q) })

\* The step is a successful elimination: the top frame leaves its attempt
\* step and a new frame is entered.
PlacesDigit ==
    /\ stack # <<>>
    /\ Top.pc = "attempt"
    /\ Len(stack') = Len(stack) + 1

\* How many of the three groups (row, column, box) cells c and p share.
SharedGroups(c, p) ==
    (IF p[1] = c[1] THEN 1 ELSE 0) + (IF p[2] = c[2] THEN 1 ELSE 0)
  + (IF SameBox(c, p) THEN 1 ELSE 0)

\* C28 (as stated): a successful elimination after placing a digit at
\* (row, col) decreases the degree of each empty peer by exactly one and
\* sets the degree of (row, col) to the filled marker -1.
C28_DegreesDownByOne ==
    [][PlacesDigit =>
          /\ \A p \in EmptyPeers(board', Top.cell) :
                options'[p].degree = options[p].degree - 1
          /\ options'[Top.cell].degree = -1]_vars

\* C28 (amended): a successful elimination decreases the degree of each
\* empty peer by the number of groups (row, column, box) it shares with
\* (row, col), one or two, sets the degree of (row, col) to -1 and leaves
\* the degree of every other cell as it was.
C28_DegreesDownPerGroup ==
    [][PlacesDigit =>
          /\ \A p \in EmptyPeers(board', Top.cell) :
                /\ options'[p].degree = options[p].degree - SharedGroups(Top.cell, p)
                /\ SharedGroups(Top.cell, p) \in {1, 2}
          /\ options'[Top.cell].degree = -1
          /\ \A e \in Cells :
                (e # Top.cell /\ e \notin EmptyPeers(board', Top.cell))
                   => options'[e].degree = options[e].degree]_vars

\* C28 witness: a digit has just been placed at a cell that had an empty
\* peer in its row and box, whose degree went down by two, and an empty
\* peer in its column only, whose degree went down by one.
C28_Witness ==
    /\ Len(stack) >= 2
    /\ Top.pc = "start"
    /\ LET c == stack[Len(stack) - 1].cell
           before == trial[Len(stack) - 1].options
       IN  /\ options[c].degree = -1
           /\ \E p \in EmptyPeers(board, c) :
                 SharedGroups(c, p) = 2 /\ options[p].degree = before[p].degree - 2
           /\ \E p \in EmptyPeers(board, c) :
                 SharedGroups(c, p) = 1 /\ options[p].degree = before[p].degree - 1

\* ------------------------------------------------------------ Board claims
\* The last operation of the user was Board.solve, the solver found no
\* solution, and the animation timer has fired on the emptied queue.
NoSolutionConsumed ==
    /\ BetweenEvents
    /\ game.solve_op > 0 /\ game.solve_op = game.ops
    /\ terminal_count = 0
    /\ game.animation_queue = <<>>
    /\ game.completion_handled

\* C29: when Board.solve runs on a board for which the solver finds no
\* solution, the game is in GameState.ERROR once the steps have been
\* consumed; it is neither still SOLVING nor COMPLETED.
C29_ErrorWhenNoSolution ==
    NoSolutionConsumed => game.state = "error"

\* Some box of the row, the column or the box of cell c holds the value.
HeldNear(g, c, value) ==
    \E c2 \in Cells : (c2 = c \/ Peer(c, c2)) /\ g.boxes[c2].value = value

\* The step is Board.place_number(value) on a selected editable box that
\* holds a different value.
PlacesNumber(value) ==
    /\ BetweenEvents
    /\ game.box_selected # None
    /\ ~game.boxes[game.box_selected].fixed
    /\ game.boxes[game.box_selected].value # value
    /\ game' = CountOp(place_number(game, value))

\* The step is Board.reset_game.
ResetsGame == \E puzzle \in GamePuzzles : game' = CountOp(reset_game(game, puzzle))

\* C30: Board.place_number(value) on a selected editable box that holds a
\* different value accepts the placement if and only if no box of the same
\* row, column or box holds value; a rejection leaves the value of the box,
\* adds exactly one to incorrect_attempts and clears the selection.  While
\* only select, sketch, place and clear have operated on a board, no two
\* peers hold equal nonzero values, and no fixed box changes.
C30_PlacementGuard ==
    /\ [][\A value \in Digits :
            PlacesNumber(value) =>
                LET sel == game.box_selected
                IN  IF HeldNear(game, sel, value)
                    THEN /\ ~place_number_returns(game, value)
                         /\ game'.boxes[sel].value = game.boxes[sel].value
                         /\ game'.incorrect_attempts = game.incorrect_attempts + 1
                         /\ game'.box_selected = None
                    ELSE /\ place_number_returns(game, value)
                         /\ game'.boxes[sel].value = value
                         /\ game'.incorrect_attempts = game.incorrect_attempts
                         /\ game'.box_selected = sel]_vars
    /\ [][(game.state # "none" /\ game'.solve_op = 0 /\ ~ResetsGame) =>
            \A c \in Cells : game.boxes[c].fixed => game'.boxes[c] = game.boxes[c]]_vars
    /\ []((game.state # "none" /\ game.solve_op = 0) => PeerConsistent(BoxValues(game)))

\* A placement was accepted and a later one refused, and no solve has run.
C30_Witness ==
    /\ game.state # "none" /\ game.solve_op = 0
    /\ game.incorrect_attempts > 0
    /\ \E c \in Cells : ~game.boxes[c].fixed /\ game.boxes[c].value # 0

====
